---- MODULE Spec2Model ----
(***************************************************************************)
(* VoiceRecorder (src/src/core/audio/voice_recorder.py): a pre-allocated   *)
(* sample buffer written by the audio device's callback thread and read by *)
(* a control thread through start_recording / stop_recording / cleanup.    *)
(*                                                                         *)
(* Two threads are modelled, each with its own program counter:            *)
(*   pc_ctl  the control thread (start_recording, stop_recording, cleanup) *)
(*   pc_cb   the device's callback thread (_audio_callback)                *)
(* A step of the model is one statement (or one run of statements that     *)
(* touch no state shared with the other thread).                           *)
(*                                                                         *)
(* The device layer (sounddevice.InputStream) is outside the repository.   *)
(* Its contract, as the recorder relies on it: callbacks are delivered     *)
(* only by a started stream, one at a time; stop() lets no new callback    *)
(* begin and returns (or raises) once the running one has finished;        *)
(* the constructor, start(), stop() and close() may each raise.            *)
(***************************************************************************)
EXTENDS Integers, Sequences, FiniteSets, TLC

\* ------------------------------------------------------------------ bounds
\* _max_samples = sample_rate * _max_recording_duration, scaled down.
max_samples == 3
\* Samples one stream delivers beyond the capacity before the model stops it.
MaxExtra == 2
\* Device-layer failures (constructor, start, stop, close) in one behaviour.
MaxFaults == 1

\* The longest chunk one callback carries: one more than the capacity, so a
\* single chunk can exceed the whole buffer.
MaxChunk == max_samples + 1
MaxDelivered == max_samples + MaxExtra

VARIABLES
    \* --- VoiceRecorder fields
    is_recording,      \* self._is_recording
    stream_active,     \* self._stream_active
    stream,            \* self._stream: "None", or the held handle's device state
    audio_buffer,      \* self._audio_buffer, 1..max_samples -> sample
    buffer_position,   \* self._buffer_position
    buffer_lock,       \* self._buffer_lock: "free", "cb" or "ctl" (the holder)
    has_callback,      \* self._buffer_full_callback is not None
    \* --- device layer
    unclosed,          \* device streams constructed and not yet closed
    faults,            \* device-layer failures so far
    \* --- control thread
    pc_ctl,            \* position of the control thread
    cs_ret,            \* which operation called _cleanup_stream
    ret,               \* outcome of the operation that returned last
    prev_ret,          \* outcome of the operation before that
    \* --- callback thread
    pc_cb,             \* position of the callback thread
    chunk,             \* indata of the running callback
    \* --- history of the current session (since the last position reset)
    delivered,         \* samples handed to callbacks, in delivery order
    accepted,          \* samples of the chunks the callback copied in full
    overflowed,        \* a chunk was rejected for lack of space
    notified,          \* invocations of buffer_full_callback
    stop_clean,        \* no callback overlapped the running stop_recording
    teardown_failed,   \* stop() or close() raised in the current operation
    \* --- HotkeyManager fields
    hotkey_mappings,   \* self._hotkey_mappings: hotkey -> prefix
    hooks,             \* self._hooks: the <<hotkey, prefix>> pairs hooked
    is_running,        \* self._is_running
    pressed_keys,      \* self._pressed_keys
    key_lock,          \* self._key_lock: "free", "hook" or "mgr" (the holder)
    \* --- keyboard and its hook thread
    held,              \* the hotkeys physically down
    pc_hook,           \* position of the hook thread
    hk_event,          \* the event being handled: "down", "up" or "none"
    hk_prefix,         \* the prefix bound to the running handler
    \* --- thread that owns the manager
    pc_mgr,            \* position inside stop_monitoring & co.
    new_mappings,      \* argument of the running update_hotkey_mappings
    \* --- history of the delivered callbacks
    balance,           \* per prefix: start callbacks minus stop callbacks
    mon_stopped,       \* stop_monitoring has returned, no start_monitoring since
    late_callback      \* a callback was delivered while mon_stopped

rec_vars == <<is_recording, stream_active, stream, audio_buffer,
              buffer_position, buffer_lock, has_callback>>
dev_vars == <<unclosed, faults>>
ctl_vars == <<pc_ctl, cs_ret, ret, prev_ret>>
cb_vars == <<pc_cb, chunk>>
hist_vars == <<delivered, accepted, overflowed, notified, stop_clean>>
hk_vars == <<hotkey_mappings, hooks, is_running, pressed_keys, key_lock,
             held, pc_hook, hk_event, hk_prefix, pc_mgr, new_mappings,
             balance, mon_stopped, late_callback>>
recorder_vars == <<rec_vars, dev_vars, ctl_vars, cb_vars, hist_vars,
                   teardown_failed>>
vars == <<recorder_vars, hk_vars>>

\* ------------------------------------------------------------------ data
\* np.zeros: the value of a cell never written.
Zero == 0

\* The k-th sample a stream delivers: the samples of a stream are pairwise
\* distinct and none is Zero, so that a dropped, duplicated, reordered or
\* never-written sample shows in the result.
Sample(k) == k

\* indata of the next callback: n samples following those delivered so far.
NextChunk(n) == [i \in 1..n |-> Sample(Len(delivered) + i)]

NoRet == [op |-> "none", kind |-> "none", data |-> <<>>]

\* What is remembered of the outcome before the last one.
Last(r) == [op |-> r.op, kind |-> r.kind]

\* ------------------------------------------------------------------ Init
\* The hotkeys (already lower case, as hotkey.lower() hooks them) and the
\* prefixes of the model.
Hotkeys == {"f8", "f9"}
Prefixes == {"a", "b"}

\* The mappings a manager is constructed or updated with: they pass
\* _validate_hotkey_mappings (not empty, every hotkey a non-empty string).
MappingChoices == [Hotkeys -> Prefixes]

\* HotkeyManager.__init__ with mappings m; no key is down.
ManagerInit(m) ==
    /\ hotkey_mappings = m
    /\ hooks = {}
    /\ is_running = FALSE
    /\ pressed_keys = {}
    /\ key_lock = "free"
    /\ held = {}
    /\ pc_hook = "idle"
    /\ hk_event = "none"
    /\ hk_prefix = "none"
    /\ pc_mgr = "idle"
    /\ new_mappings = <<>>
    /\ balance = [p \in Prefixes |-> 0]
    /\ mon_stopped = FALSE
    /\ late_callback = FALSE

\* VoiceRecorder.__init__: lines 14-28. The manager beside it is
\* constructed and left alone.
Init ==
    /\ ManagerInit([h \in Hotkeys |-> IF h = "f8" THEN "a" ELSE "b"])
    /\ teardown_failed = FALSE
    /\ is_recording = FALSE
    /\ stream_active = FALSE
    /\ stream = "None"
    /\ audio_buffer = [i \in 1..max_samples |-> Zero]
    /\ buffer_position = 0
    /\ buffer_lock = "free"
    /\ has_callback \in BOOLEAN
    /\ unclosed = 0
    /\ faults = 0
    /\ pc_ctl = "idle"
    /\ cs_ret = "none"
    /\ ret = NoRet
    /\ prev_ret = Last(NoRet)
    /\ pc_cb = "idle"
    /\ chunk = <<>>
    /\ delivered = <<>>
    /\ accepted = <<>>
    /\ overflowed = FALSE
    /\ notified = 0
    /\ stop_clean = TRUE

\* Mutant of is_recording_property: a pending stream is not counted.
is_recording_property_FlagOnly == is_recording

\* The is_recording property: lines 122-125.
is_recording_property == is_recording \/ stream_active

\* An operation of the control thread returns (or raises) to its caller.
\* Called from "idle", the operation returns at once and the outcome before
\* it becomes the previous one.
Return(op, kind, data) ==
    /\ pc_ctl' = "idle"
    /\ cs_ret' = "none"
    /\ ret' = [op |-> op, kind |-> kind, data |-> data]
    /\ prev_ret' = IF pc_ctl = "idle" THEN Last(ret) ELSE prev_ret

\* An operation that takes more than one step begins: the outcome of the
\* operation before it becomes the previous one.
Enter ==
    /\ ret' = NoRet
    /\ prev_ret' = Last(ret)

\* The control thread moves on inside an operation.
Goto(pc) ==
    /\ pc_ctl' = pc
    /\ UNCHANGED <<cs_ret, ret, prev_ret>>

\* ------------------------------------------------------- _cleanup_stream
\* Entering _cleanup_stream on behalf of `caller`.
CallCleanupStream(caller) ==
    /\ pc_ctl' = "cs_begin"
    /\ cs_ret' = caller
    /\ IF pc_ctl = "idle" THEN Enter ELSE UNCHANGED <<ret, prev_ret>>

\* _cleanup_stream returns to the operation that called it.
CsReturn ==
    CASE cs_ret = "start_pre" ->
            /\ pc_ctl' = "start_reset"
            /\ cs_ret' = "none"
            /\ UNCHANGED <<ret, prev_ret>>
      [] cs_ret = "start_fail" -> Return("start", "error", <<>>)
      [] cs_ret = "stop" ->
            /\ pc_ctl' = "stop_lock"
            /\ cs_ret' = "none"
            /\ UNCHANGED <<ret, prev_ret>>
      [] cs_ret = "cleanup" -> Return("cleanup", "ok", <<>>)

\* Lines 87-91: clear _stream_active; with no handle there is nothing to do;
\* an active stream is asked to stop, an inactive one goes straight to close.
CsBegin ==
    /\ pc_ctl = "cs_begin"
    /\ stream_active' = FALSE
    /\ IF stream = "None"
       THEN /\ CsReturn
            /\ UNCHANGED stream
       ELSE IF stream = "running"
       THEN /\ stream' = "stopping"
            /\ Goto("cs_stop")
       ELSE /\ UNCHANGED stream
            /\ Goto("cs_close")
    /\ UNCHANGED <<is_recording, audio_buffer, buffer_position, buffer_lock,
                   has_callback, dev_vars, cb_vars, hist_vars>>
    /\ UNCHANGED <<teardown_failed, hk_vars>>

\* Mutant of CsStop: a failure of stream.stop() is not caught; it reaches
\* the caller with the handle still held.
CsStop_Propagates ==
    /\ pc_ctl = "cs_stop"
    /\ pc_cb = "idle"
    /\ \/ /\ stream' = "stopped"
          /\ Goto("cs_close")
          /\ UNCHANGED <<faults, teardown_failed>>
       \/ /\ faults < MaxFaults
          /\ faults' = faults + 1
          /\ teardown_failed' = TRUE
          /\ Return(IF cs_ret = "stop" THEN "stop"
                    ELSE IF cs_ret = "cleanup" THEN "cleanup" ELSE "start",
                    "error", <<>>)
          /\ UNCHANGED stream
    /\ UNCHANGED <<is_recording, stream_active, audio_buffer, buffer_position,
                   buffer_lock, has_callback, unclosed, cb_vars, hist_vars>>
    /\ UNCHANGED hk_vars

\* Line 91: stream.stop() returns once the running callback has finished.
\* It may raise: close() is then skipped, the handle is dropped (finally,
\* line 96) and the device stream is left unclosed.
CsStop ==
    /\ pc_ctl = "cs_stop"
    /\ pc_cb = "idle"
    /\ \/ /\ stream' = "stopped"
          /\ Goto("cs_close")
          /\ UNCHANGED <<faults, teardown_failed>>
       \/ /\ faults < MaxFaults
          /\ faults' = faults + 1
          /\ teardown_failed' = TRUE
          /\ stream' = "None"
          /\ CsReturn
    /\ UNCHANGED <<is_recording, stream_active, audio_buffer, buffer_position,
                   buffer_lock, has_callback, unclosed, cb_vars, hist_vars>>
    /\ UNCHANGED hk_vars

\* Lines 92-96: stream.close(), then the handle is dropped whether or not
\* close() raised.
CsClose ==
    /\ pc_ctl = "cs_close"
    /\ \/ /\ unclosed' = unclosed - 1
          /\ UNCHANGED <<faults, teardown_failed>>
       \/ /\ faults < MaxFaults
          /\ faults' = faults + 1
          /\ teardown_failed' = TRUE
          /\ UNCHANGED unclosed
    /\ stream' = "None"
    /\ CsReturn
    /\ UNCHANGED <<is_recording, stream_active, audio_buffer, buffer_position,
                   buffer_lock, has_callback, cb_vars, hist_vars>>
    /\ UNCHANGED hk_vars

\* ------------------------------------------------------- start_recording
\* Mutant of StartIsNoOp: the guard also asks that no stream be pending.
StartIsNoOp_WrongFlag == is_recording /\ ~stream_active

\* Line 32: the guard of start_recording.
StartIsNoOp == is_recording

\* Lines 32-37: already recording is a warning and a return; a stream left
\* by an overflowed session is cleaned up first.
StartCall ==
    /\ pc_ctl = "idle"
    /\ IF StartIsNoOp
       THEN Return("start", "noop", <<>>)
       ELSE IF stream_active
       THEN CallCleanupStream("start_pre")
       ELSE /\ pc_ctl' = "start_reset"
            /\ Enter
            /\ UNCHANGED cs_ret
    /\ UNCHANGED <<rec_vars, dev_vars, cb_vars, hist_vars>>
    /\ teardown_failed' = FALSE
    /\ UNCHANGED hk_vars

\* Mutant of StartReset: a new session begins at the old position.
StartReset_KeepsPosition ==
    /\ pc_ctl = "start_reset"
    /\ delivered' = <<>>
    /\ accepted' = <<>>
    /\ overflowed' = FALSE
    /\ notified' = 0
    /\ stop_clean' = TRUE
    /\ Goto("start_flags")
    /\ UNCHANGED <<is_recording, stream_active, stream, audio_buffer,
                   buffer_position, buffer_lock, has_callback, dev_vars,
                   cb_vars>>
    /\ UNCHANGED <<teardown_failed, hk_vars>>

\* Line 41: the position is reset, without the lock. A new session begins.
StartReset ==
    /\ pc_ctl = "start_reset"
    /\ buffer_position' = 0
    /\ delivered' = <<>>
    /\ accepted' = <<>>
    /\ overflowed' = FALSE
    /\ notified' = 0
    /\ stop_clean' = TRUE
    /\ Goto("start_flags")
    /\ UNCHANGED <<is_recording, stream_active, stream, audio_buffer,
                   buffer_lock, has_callback, dev_vars, cb_vars>>
    /\ UNCHANGED <<teardown_failed, hk_vars>>

\* Lines 42-43.
StartFlags ==
    /\ pc_ctl = "start_flags"
    /\ is_recording' = TRUE
    /\ stream_active' = TRUE
    /\ Goto("start_open")
    /\ UNCHANGED <<stream, audio_buffer, buffer_position, buffer_lock,
                   has_callback, dev_vars, cb_vars, hist_vars>>
    /\ UNCHANGED <<teardown_failed, hk_vars>>

\* Lines 45-52: the stream is constructed and started. The constructor may
\* raise (no handle is stored), and so may start() (the handle is stored).
StartOpen ==
    /\ pc_ctl = "start_open"
    /\ \/ /\ stream' = "running"
          /\ unclosed' = unclosed + 1
          /\ Return("start", "ok", <<>>)
          /\ UNCHANGED faults
       \/ /\ faults < MaxFaults
          /\ faults' = faults + 1
          /\ Goto("start_fail")
          /\ UNCHANGED <<stream, unclosed>>
       \/ /\ faults < MaxFaults
          /\ faults' = faults + 1
          /\ stream' = "created"
          /\ unclosed' = unclosed + 1
          /\ Goto("start_fail")
    /\ UNCHANGED <<is_recording, stream_active, audio_buffer, buffer_position,
                   buffer_lock, has_callback, cb_vars, hist_vars>>
    /\ UNCHANGED <<teardown_failed, hk_vars>>

\* Mutant of StartFail: the failure is raised without _cleanup_stream.
StartFail_NoCleanup ==
    /\ pc_ctl = "start_fail"
    /\ is_recording' = FALSE
    /\ stream_active' = FALSE
    /\ Return("start", "error", <<>>)
    /\ UNCHANGED <<stream, audio_buffer, buffer_position, buffer_lock,
                   has_callback, dev_vars, cb_vars, hist_vars>>
    /\ UNCHANGED <<teardown_failed, hk_vars>>

\* Mutant of StartFail: _is_recording is left set when the device fails.
StartFail_KeepsFlag ==
    /\ pc_ctl = "start_fail"
    /\ stream_active' = FALSE
    /\ CallCleanupStream("start_fail")
    /\ UNCHANGED <<is_recording, stream, audio_buffer, buffer_position,
                   buffer_lock, has_callback, dev_vars, cb_vars, hist_vars>>
    /\ UNCHANGED <<teardown_failed, hk_vars>>

\* Lines 54-58: the flags are cleared, the stream is cleaned up and the
\* failure is raised as AudioProcessingError.
StartFail ==
    /\ pc_ctl = "start_fail"
    /\ is_recording' = FALSE
    /\ stream_active' = FALSE
    /\ CallCleanupStream("start_fail")
    /\ UNCHANGED <<stream, audio_buffer, buffer_position, buffer_lock,
                   has_callback, dev_vars, cb_vars, hist_vars>>
    /\ UNCHANGED <<teardown_failed, hk_vars>>

\* -------------------------------------------------------- stop_recording
\* Mutant of StopIsNoOp: the second test is not negated.
StopIsNoOp_WrongTest(was_recording) == ~was_recording /\ stream_active

\* Line 65: nothing to stop.
StopIsNoOp(was_recording) == ~was_recording /\ ~stream_active

\* Lines 62-70: the flag is cleared; with nothing to stop an empty array is
\* returned, otherwise the stream is cleaned up.
StopCall ==
    /\ pc_ctl = "idle"
    /\ is_recording' = FALSE
    /\ IF StopIsNoOp(is_recording)
       THEN /\ Return("stop", "empty", <<>>)
            /\ UNCHANGED stop_clean
       ELSE /\ CallCleanupStream("stop")
            /\ stop_clean' = (pc_cb = "idle")
    /\ UNCHANGED <<stream_active, stream, audio_buffer, buffer_position,
                   buffer_lock, has_callback, dev_vars, cb_vars, delivered,
                   accepted, overflowed, notified>>
    /\ teardown_failed' = FALSE
    /\ UNCHANGED hk_vars

\* Line 72: with self._buffer_lock.
StopLock ==
    /\ pc_ctl = "stop_lock"
    /\ buffer_lock = "free"
    /\ buffer_lock' = "ctl"
    /\ Goto("stop_read")
    /\ UNCHANGED <<is_recording, stream_active, stream, audio_buffer,
                   buffer_position, has_callback, dev_vars, cb_vars,
                   hist_vars>>
    /\ UNCHANGED <<teardown_failed, hk_vars>>

\* Mutant of NothingCaptured: the test can never be true.
NothingCaptured_Never == buffer_position < 0

\* Line 73: nothing was captured.
NothingCaptured == buffer_position = 0

\* Mutant of RecordedPortion: the whole buffer is returned, not the slice.
RecordedPortion_WholeBuffer == audio_buffer

\* Line 77: self._audio_buffer[:self._buffer_position].copy()
RecordedPortion == [i \in 1..buffer_position |-> audio_buffer[i]]

\* Lines 73-83: an empty recording raises AudioProcessingError, otherwise
\* the recorded portion is returned; the lock is released either way.
StopRead ==
    /\ pc_ctl = "stop_read"
    /\ buffer_lock' = "free"
    /\ IF NothingCaptured
       THEN Return("stop", "error", <<>>)
       ELSE Return("stop", "data", RecordedPortion)
    /\ UNCHANGED <<is_recording, stream_active, stream, audio_buffer,
                   buffer_position, has_callback, dev_vars, cb_vars,
                   hist_vars>>
    /\ UNCHANGED <<teardown_failed, hk_vars>>

\* --------------------------------------------------------------- cleanup
\* Lines 127-130.
CleanupCall ==
    /\ pc_ctl = "idle"
    /\ is_recording' = FALSE
    /\ CallCleanupStream("cleanup")
    /\ UNCHANGED <<stream_active, stream, audio_buffer, buffer_position,
                   buffer_lock, has_callback, dev_vars, cb_vars, hist_vars>>
    /\ teardown_failed' = FALSE
    /\ UNCHANGED hk_vars

\* ------------------------------------------------------- _audio_callback
\* The callback thread returns from _audio_callback.
CbReturn ==
    /\ pc_cb' = "idle"
    /\ chunk' = <<>>

\* The device invokes _audio_callback with the next n samples.
CbInvoke ==
    /\ pc_cb = "idle"
    /\ stream = "running"
    /\ \E n \in 1..MaxChunk :
          /\ Len(delivered) + n <= MaxDelivered
          /\ chunk' = NextChunk(n)
          /\ delivered' = delivered \o NextChunk(n)
    /\ pc_cb' = "cb_check"
    /\ stop_clean' = IF pc_ctl = "idle" THEN stop_clean ELSE FALSE
    /\ UNCHANGED <<rec_vars, dev_vars, ctl_vars, accepted, overflowed,
                   notified>>
    /\ UNCHANGED <<teardown_failed, hk_vars>>

\* Mutant of CallbackIgnored: the callback never returns early.
CallbackIgnored_Never == FALSE

\* Line 100: if not self._is_recording
CallbackIgnored == ~is_recording

\* Lines 100-101: a callback outside a recording returns at once.
CbCheck ==
    /\ pc_cb = "cb_check"
    /\ IF CallbackIgnored
       THEN CbReturn
       ELSE /\ pc_cb' = "cb_lock"
            /\ UNCHANGED chunk
    /\ UNCHANGED <<rec_vars, dev_vars, ctl_vars, hist_vars>>
    /\ UNCHANGED <<teardown_failed, hk_vars>>

\* Line 103: with self._buffer_lock.
CbLock ==
    /\ pc_cb = "cb_lock"
    /\ buffer_lock = "free"
    /\ buffer_lock' = "cb"
    /\ pc_cb' = "cb_space"
    /\ UNCHANGED <<is_recording, stream_active, stream, audio_buffer,
                   buffer_position, has_callback, dev_vars, ctl_vars, chunk,
                   hist_vars>>
    /\ UNCHANGED <<teardown_failed, hk_vars>>

\* Mutant of NoSpace: the size of the chunk is left out of the test.
NoSpace_IgnoresChunk(chunk_size) == buffer_position > max_samples

\* Mutant of NoSpace: a chunk that fills the buffer exactly is refused.
NoSpace_Inclusive(chunk_size) == buffer_position + chunk_size >= max_samples

\* Line 108: the chunk does not fit.
NoSpace(chunk_size) == buffer_position + chunk_size > max_samples

\* Mutant of RecordingAfterOverflow: the flag is left as it was.
RecordingAfterOverflow_Kept == is_recording

\* Line 110: self._is_recording = False
RecordingAfterOverflow == FALSE

\* Lines 108-110: a chunk that does not fit ends the recording.
CbSpace ==
    /\ pc_cb = "cb_space"
    /\ IF NoSpace(Len(chunk))
       THEN /\ is_recording' = RecordingAfterOverflow
            /\ overflowed' = TRUE
            /\ pc_cb' = "cb_overflow"
       ELSE /\ pc_cb' = "cb_copy"
            /\ UNCHANGED <<is_recording, overflowed>>
    /\ UNCHANGED <<stream_active, stream, audio_buffer, buffer_position,
                   buffer_lock, has_callback, dev_vars, ctl_vars, chunk,
                   delivered, accepted, notified, stop_clean>>
    /\ UNCHANGED <<teardown_failed, hk_vars>>

\* Line 112: the notifier is called when one was given.
CallsNotifier == has_callback

\* Lines 112-116: buffer_full_callback is called, inside the with block;
\* without a notifier the callback returns and the lock is released.
CbOverflow ==
    /\ pc_cb = "cb_overflow"
    /\ IF CallsNotifier
       THEN /\ notified' = notified + 1
            /\ pc_cb' = "cb_notifier"
            /\ UNCHANGED <<chunk, buffer_lock>>
       ELSE /\ CbReturn
            /\ buffer_lock' = "free"
            /\ UNCHANGED notified
    /\ UNCHANGED <<is_recording, stream_active, stream, audio_buffer,
                   buffer_position, has_callback, dev_vars, ctl_vars,
                   delivered, accepted, overflowed, stop_clean>>
    /\ UNCHANGED <<teardown_failed, hk_vars>>

\* Mutant of LockAfterNotifier: the overflow path returns without releasing.
LockAfterNotifier_Held == "cb"

\* The lock as the notifier's return leaves it (line 116 leaves the with
\* block).
LockAfterNotifier == "free"

\* Line 116: the notifier has returned; return releases the lock.
CbNotifierReturn ==
    /\ pc_cb = "cb_notifier"
    /\ CbReturn
    /\ buffer_lock' = LockAfterNotifier
    /\ UNCHANGED <<is_recording, stream_active, stream, audio_buffer,
                   buffer_position, has_callback, dev_vars, ctl_vars,
                   hist_vars>>
    /\ UNCHANGED <<teardown_failed, hk_vars>>

\* Mutant of CopyChunk: the chunk is copied to the start of the buffer.
CopyChunk_FromStart(buf, pos, c) ==
    [i \in 1..max_samples |-> IF i <= Len(c) THEN c[i] ELSE buf[i]]

\* Line 119: buf[pos : pos + chunk_size] = c
CopyChunk(buf, pos, c) ==
    [i \in 1..max_samples |->
        IF i > pos /\ i <= pos + Len(c) THEN c[i - pos] ELSE buf[i]]

\* Line 119.
CbCopy ==
    /\ pc_cb = "cb_copy"
    /\ audio_buffer' = CopyChunk(audio_buffer, buffer_position, chunk)
    /\ pc_cb' = "cb_advance"
    /\ UNCHANGED <<is_recording, stream_active, stream, buffer_position,
                   buffer_lock, has_callback, dev_vars, ctl_vars, chunk,
                   hist_vars>>
    /\ UNCHANGED <<teardown_failed, hk_vars>>

\* Line 120: the position after a chunk of chunk_size samples.
Advance(pos, chunk_size) == pos + chunk_size

\* Line 120, and the end of the with block.
CbAdvance ==
    /\ pc_cb = "cb_advance"
    /\ buffer_position' = Advance(buffer_position, Len(chunk))
    /\ accepted' = accepted \o chunk
    /\ buffer_lock' = "free"
    /\ CbReturn
    /\ UNCHANGED <<is_recording, stream_active, stream, audio_buffer,
                   has_callback, dev_vars, ctl_vars, delivered, overflowed,
                   notified, stop_clean>>
    /\ UNCHANGED <<teardown_failed, hk_vars>>

\* ------------------------------------------------------------------ Next
ControlCall == StartCall \/ StopCall \/ CleanupCall

ControlStep ==
    \/ CsBegin \/ CsStop \/ CsClose
    \/ StartReset \/ StartFlags \/ StartOpen \/ StartFail
    \/ StopLock \/ StopRead

CallbackStep ==
    \/ CbCheck \/ CbLock \/ CbSpace \/ CbOverflow \/ CbNotifierReturn
    \/ CbCopy \/ CbAdvance

Next == ControlCall \/ ControlStep \/ CbInvoke \/ CallbackStep

Spec == Init /\ [][Next]_vars

\* Both threads are scheduled: a thread that can take a step takes one.
\* The callers of the recorder and the device are not obliged to act.
FairSpec == Spec /\ WF_vars(ControlStep) /\ WF_vars(CallbackStep)

\* ========================================================= HotkeyManager
\* src/src/core/input/hotkey_manager.py. The keyboard library delivers the
\* events of a hooked hotkey to _on_key_down / _on_key_up on its hook
\* thread, one handler at a time; a key that is held down repeats its
\* key-down event. start_monitoring, stop_monitoring and
\* update_hotkey_mappings run on the thread that owns the manager;
\* start_monitoring is called only on a manager that is not running.

\* The prefix hooked for hotkey h (lines 51-60 bind it when the hook is made).
HookedPrefix(h) == CHOOSE p \in Prefixes : <<h, p>> \in hooks
IsHooked(h) == \E p \in Prefixes : <<h, p>> \in hooks

\* The hook thread enters the handler of event e for hotkey h, if hooked.
Dispatch(h, e) ==
    IF IsHooked(h)
    THEN /\ pc_hook' = "check"
         /\ hk_event' = e
         /\ hk_prefix' = HookedPrefix(h)
    ELSE UNCHANGED <<pc_hook, hk_event, hk_prefix>>

\* A hotkey goes down.
KeyPress ==
    /\ pc_hook = "idle"
    /\ \E h \in Hotkeys \ held :
          /\ held' = held \cup {h}
          /\ Dispatch(h, "down")
    /\ UNCHANGED <<hotkey_mappings, hooks, is_running, pressed_keys, key_lock,
                   pc_mgr, new_mappings, balance, mon_stopped, late_callback>>
    /\ UNCHANGED recorder_vars

\* A hotkey that is held down repeats its key-down event.
KeyRepeat ==
    /\ pc_hook = "idle"
    /\ \E h \in held :
          /\ IsHooked(h)
          /\ Dispatch(h, "down")
    /\ UNCHANGED <<hotkey_mappings, hooks, is_running, pressed_keys, key_lock,
                   held, pc_mgr, new_mappings, balance, mon_stopped,
                   late_callback>>
    /\ UNCHANGED recorder_vars

\* A hotkey goes up.
KeyRelease ==
    /\ pc_hook = "idle"
    /\ \E h \in held :
          /\ held' = held \ {h}
          /\ Dispatch(h, "up")
    /\ UNCHANGED <<hotkey_mappings, hooks, is_running, pressed_keys, key_lock,
                   pc_mgr, new_mappings, balance, mon_stopped, late_callback>>
    /\ UNCHANGED recorder_vars

\* The hook thread leaves the handler.
HookReturn ==
    /\ pc_hook' = "idle"
    /\ hk_event' = "none"
    /\ hk_prefix' = "none"

\* Lines 83-84 and 92-93: a handler of a manager that is not running returns.
OnKeyCheck ==
    /\ pc_hook = "check"
    /\ IF ~is_running
       THEN HookReturn
       ELSE /\ pc_hook' = "lock"
            /\ UNCHANGED <<hk_event, hk_prefix>>
    /\ UNCHANGED <<hotkey_mappings, hooks, is_running, pressed_keys, key_lock,
                   held, pc_mgr, new_mappings, balance, mon_stopped,
                   late_callback>>
    /\ UNCHANGED recorder_vars

\* Lines 86 and 95: with self._key_lock.
OnKeyLock ==
    /\ pc_hook = "lock"
    /\ key_lock = "free"
    /\ key_lock' = "hook"
    /\ pc_hook' = "body"
    /\ UNCHANGED <<hotkey_mappings, hooks, is_running, pressed_keys, held,
                   hk_event, hk_prefix, pc_mgr, new_mappings, balance,
                   mon_stopped, late_callback>>
    /\ UNCHANGED recorder_vars

\* The balance of prefix p after one more start (d = 1) or stop (d = -1)
\* callback; it is kept within -1..2.
Delivered(p, d) ==
    [balance EXCEPT ![p] = IF @ + d > 2 THEN 2 ELSE IF @ + d < -1 THEN -1
                            ELSE @ + d]

\* Lines 87-89: a prefix not yet pressed is added and start_callback is
\* called, inside the with block.
OnKeyDownBody ==
    /\ pc_hook = "body"
    /\ hk_event = "down"
    /\ IF hk_prefix \notin pressed_keys
       THEN /\ pressed_keys' = pressed_keys \cup {hk_prefix}
            /\ balance' = Delivered(hk_prefix, 1)
            /\ late_callback' = (late_callback \/ mon_stopped)
       ELSE UNCHANGED <<pressed_keys, balance, late_callback>>
    /\ key_lock' = "free"
    /\ HookReturn
    /\ UNCHANGED <<hotkey_mappings, hooks, is_running, held, pc_mgr,
                   new_mappings, mon_stopped>>
    /\ UNCHANGED recorder_vars

\* Lines 96-98: a pressed prefix is removed and stop_callback is called,
\* inside the with block.
OnKeyUpBody ==
    /\ pc_hook = "body"
    /\ hk_event = "up"
    /\ IF hk_prefix \in pressed_keys
       THEN /\ pressed_keys' = pressed_keys \ {hk_prefix}
            /\ balance' = Delivered(hk_prefix, -1)
            /\ late_callback' = (late_callback \/ mon_stopped)
       ELSE UNCHANGED <<pressed_keys, balance, late_callback>>
    /\ key_lock' = "free"
    /\ HookReturn
    /\ UNCHANGED <<hotkey_mappings, hooks, is_running, held, pc_mgr,
                   new_mappings, mon_stopped>>
    /\ UNCHANGED recorder_vars

\* Line 48: start_monitoring sets the flag first.
StartMonitoring ==
    /\ pc_mgr = "idle"
    /\ ~is_running
    /\ is_running' = TRUE
    /\ mon_stopped' = FALSE
    /\ late_callback' = FALSE
    /\ pc_mgr' = "hook"
    /\ UNCHANGED <<hotkey_mappings, hooks, pressed_keys, key_lock, held,
                   pc_hook, hk_event, hk_prefix, new_mappings, balance>>
    /\ UNCHANGED recorder_vars

\* Lines 50-63: a press hook and a release hook for every mapped hotkey.
StartMonitoringHooks ==
    /\ pc_mgr = "hook"
    /\ hooks' = {<<h, hotkey_mappings[h]>> : h \in DOMAIN hotkey_mappings}
    /\ pc_mgr' = "idle"
    /\ UNCHANGED <<hotkey_mappings, is_running, pressed_keys, key_lock, held,
                   pc_hook, hk_event, hk_prefix, new_mappings, balance,
                   mon_stopped, late_callback>>
    /\ UNCHANGED recorder_vars

\* Lines 67-70: nothing to do when not running; else the flag is cleared.
StopMonitoring ==
    /\ pc_mgr = "idle"
    /\ IF ~is_running
       THEN UNCHANGED <<is_running, pc_mgr>>
       ELSE /\ is_running' = FALSE
            /\ pc_mgr' = "unhook"
    /\ UNCHANGED <<hotkey_mappings, hooks, pressed_keys, key_lock, held,
                   pc_hook, hk_event, hk_prefix, new_mappings, balance,
                   mon_stopped, late_callback>>
    /\ UNCHANGED recorder_vars

\* Lines 72-75: every hook is removed. A handler already running goes on.
StopMonitoringUnhook ==
    /\ pc_mgr = "unhook"
    /\ hooks' = {}
    /\ pc_mgr' = "stop_lock"
    /\ UNCHANGED <<hotkey_mappings, is_running, pressed_keys, key_lock, held,
                   pc_hook, hk_event, hk_prefix, new_mappings, balance,
                   mon_stopped, late_callback>>
    /\ UNCHANGED recorder_vars

\* Line 77: with self._key_lock.
StopMonitoringLock ==
    /\ pc_mgr = "stop_lock"
    /\ key_lock = "free"
    /\ key_lock' = "mgr"
    /\ pc_mgr' = "stop_clear"
    /\ UNCHANGED <<hotkey_mappings, hooks, is_running, pressed_keys, held,
                   pc_hook, hk_event, hk_prefix, new_mappings, balance,
                   mon_stopped, late_callback>>
    /\ UNCHANGED recorder_vars

\* Lines 78-80: the pressed keys are cleared and stop_monitoring returns.
StopMonitoringClear ==
    /\ pc_mgr = "stop_clear"
    /\ pressed_keys' = {}
    /\ key_lock' = "free"
    /\ pc_mgr' = "idle"
    /\ mon_stopped' = TRUE
    /\ UNCHANGED <<hotkey_mappings, hooks, is_running, held, pc_hook,
                   hk_event, hk_prefix, new_mappings, balance, late_callback>>
    /\ UNCHANGED recorder_vars

\* Lines 102-104: update_hotkey_mappings validates the new mappings and
\* takes the lock.
UpdateHotkeyMappings ==
    /\ pc_mgr = "idle"
    /\ key_lock = "free"
    /\ \E m \in MappingChoices : new_mappings' = m
    /\ key_lock' = "mgr"
    /\ pc_mgr' = "update"
    /\ UNCHANGED <<hotkey_mappings, hooks, is_running, pressed_keys, held,
                   pc_hook, hk_event, hk_prefix, balance, mon_stopped,
                   late_callback>>
    /\ UNCHANGED recorder_vars

\* Lines 105-108: the mappings are replaced and the pressed keys cleared;
\* the hooks stay as they are.
UpdateHotkeyMappingsBody ==
    /\ pc_mgr = "update"
    /\ hotkey_mappings' = new_mappings
    /\ pressed_keys' = {}
    /\ new_mappings' = <<>>
    /\ key_lock' = "free"
    /\ pc_mgr' = "idle"
    /\ UNCHANGED <<hooks, is_running, held, pc_hook, hk_event, hk_prefix,
                   balance, mon_stopped, late_callback>>
    /\ UNCHANGED recorder_vars

HkInit ==
    /\ \E m \in MappingChoices : ManagerInit(m)
    /\ teardown_failed = FALSE
    /\ is_recording = FALSE
    /\ stream_active = FALSE
    /\ stream = "None"
    /\ audio_buffer = [i \in 1..max_samples |-> Zero]
    /\ buffer_position = 0
    /\ buffer_lock = "free"
    /\ has_callback = FALSE
    /\ unclosed = 0
    /\ faults = 0
    /\ pc_ctl = "idle"
    /\ cs_ret = "none"
    /\ ret = NoRet
    /\ prev_ret = Last(NoRet)
    /\ pc_cb = "idle"
    /\ chunk = <<>>
    /\ delivered = <<>>
    /\ accepted = <<>>
    /\ overflowed = FALSE
    /\ notified = 0
    /\ stop_clean = TRUE

HkNext ==
    \/ KeyPress \/ KeyRepeat \/ KeyRelease
    \/ OnKeyCheck \/ OnKeyLock \/ OnKeyDownBody \/ OnKeyUpBody
    \/ StartMonitoring \/ StartMonitoringHooks
    \/ StopMonitoring \/ StopMonitoringUnhook \/ StopMonitoringLock
    \/ StopMonitoringClear
    \/ UpdateHotkeyMappings \/ UpdateHotkeyMappingsBody

\* The HotkeyManager by itself: the recorder is left in its initial state.
HotkeySpec == HkInit /\ [][HkNext]_vars

TypeOK ==
    /\ is_recording \in BOOLEAN
    /\ stream_active \in BOOLEAN
    /\ stream \in {"None", "created", "running", "stopping", "stopped"}
    /\ buffer_lock \in {"free", "cb", "ctl"}
    /\ buffer_position \in 0..max_samples
    /\ pc_cb \in {"idle", "cb_check", "cb_lock", "cb_space", "cb_overflow",
                  "cb_notifier", "cb_copy", "cb_advance"}

\* ================================================================ claims
\* The stop_recording that has just returned ended a session: the operation
\* before it was a start_recording that opened a stream or found one Active.
StopEndedSession ==
    /\ pc_ctl = "idle"
    /\ ret.op = "stop"
    /\ prev_ret.op = "start"
    /\ prev_ret.kind \in {"ok", "noop"}

\* C1: in a session start_recording, callbacks, stop_recording (every
\* callback invoked and finished between the two calls) whose delivered
\* chunks total more than 0 and at most max_samples samples, stop_recording
\* returns exactly the delivered samples, in delivery order.
C1_StopReturnsDelivered ==
    (/\ StopEndedSession
     /\ stop_clean
     /\ Len(delivered) > 0
     /\ Len(delivered) <= max_samples)
    => (ret.kind = "data" /\ ret.data = delivered)

\* C1 witness: a session that filled the buffer exactly was stopped and its
\* samples came back.
C1_Witness ==
    /\ StopEndedSession
    /\ stop_clean
    /\ Len(delivered) = max_samples
    /\ ret.kind = "data"
    /\ ret.data = delivered

\* A step of the callback thread (every such step moves pc_cb).
CbStep == pc_cb' # pc_cb

\* C2: a chunk with buffer_position + len(chunk) > max_samples is rejected
\* in full: from the space check to the callback's return the buffer and the
\* position stay as they were and the recording flag is cleared; a chunk
\* with buffer_position + len(chunk) <= max_samples (exactly max_samples
\* included) is accepted without overflow and copied in full.
C2_RejectedInFull ==
    [][/\ (/\ CbStep
           /\ \/ pc_cb \in {"cb_overflow", "cb_notifier"}
              \/ /\ pc_cb = "cb_space"
                 /\ buffer_position + Len(chunk) > max_samples)
          => (/\ audio_buffer' = audio_buffer
              /\ buffer_position' = buffer_position
              /\ ~is_recording'
              /\ overflowed'
              /\ pc_cb' \in {"cb_overflow", "cb_notifier", "idle"})
       /\ (/\ CbStep
           /\ pc_cb = "cb_space"
           /\ buffer_position + Len(chunk) <= max_samples)
          => (/\ pc_cb' = "cb_copy"
              /\ is_recording' = is_recording
              /\ overflowed' = overflowed)
       /\ (CbStep /\ pc_cb = "cb_advance")
          => (/\ buffer_position' = buffer_position + Len(chunk)
              /\ \A i \in 1..Len(chunk) :
                    audio_buffer'[buffer_position + i] = chunk[i])
      ]_vars

\* C2 witness: the buffer was filled to exactly max_samples without
\* overflow, and one more sample is now being rejected.
C2_Witness ==
    /\ pc_cb = "cb_overflow"
    /\ buffer_position = max_samples
    /\ Len(chunk) = 1
    /\ accepted = SubSeq(delivered, 1, max_samples)

\* C3: buffer_full_callback (when one was given) is invoked at most once per
\* session: exactly once in a session that overflowed, also after further
\* callbacks, and never in a session that did not overflow.
C3_NotifiedOncePerSession ==
    /\ notified <= 1
    /\ ~overflowed => notified = 0
    /\ (overflowed /\ has_callback /\ pc_cb # "cb_overflow") => notified = 1

\* C3 witness: after the overflow was notified, a further callback has been
\* delivered and the count is still one.
C3_Witness ==
    /\ overflowed
    /\ notified = 1
    /\ pc_cb = "cb_check"

\* C4 as claimed: every stop_recording that ends an overflowed session
\* returns a non-empty array, the samples accepted before the rejected
\* chunk. It fails when the first chunk alone exceeds max_samples.
C4_OverflowNeverAnError ==
    (StopEndedSession /\ overflowed)
    => (ret.kind = "data" /\ ret.data # <<>> /\ ret.data = accepted)

\* C4 amended: stop_recording on an overflowed session in which at least
\* one chunk was accepted returns exactly the accepted samples (non-empty);
\* when the overflow rejected the very first chunk it raises
\* AudioProcessingError, as for any session with nothing captured.
C4_OverflowTruncates ==
    (StopEndedSession /\ overflowed)
    => IF accepted # <<>>
       THEN ret.kind = "data" /\ ret.data = accepted
       ELSE ret.kind = "error"

\* C4 witness: an overflowed session was stopped and its truncated samples
\* came back.
C4_Witness ==
    /\ StopEndedSession
    /\ overflowed
    /\ ret.kind = "data"
    /\ ret.data = accepted
    /\ Len(delivered) > Len(accepted)

\* C5: while buffer_full_callback runs, the callback thread does not hold
\* _buffer_lock.
C5_NotifierWithoutLock ==
    pc_cb = "cb_notifier" => buffer_lock # "cb"

\* stop_recording is in progress.
InStop == cs_ret = "stop" \/ pc_ctl \in {"stop_lock", "stop_read"}

\* C6: a stop_recording in progress returns and a callback in flight
\* returns, whatever the interleaving of the two threads.
C6_StopAndCallbackComplete ==
    /\ InStop ~> (pc_ctl = "idle")
    /\ (pc_cb # "idle") ~> (pc_cb = "idle")

\* C6 witness: stop_recording waits in stream.stop() while the callback
\* holds the lock and delivers the overflow notification.
C6_Witness ==
    /\ cs_ret = "stop"
    /\ pc_ctl = "cs_stop"
    /\ pc_cb = "cb_notifier"
    /\ buffer_lock = "cb"

\* C7: start_recording on an Active session returns without an error and
\* leaves the position, the buffer, the stream handle, the flags and the
\* device's streams as they were.
C7_StartWhileActiveIsNoOp ==
    [][(StartCall /\ is_recording)
       => (/\ pc_ctl' = "idle"
           /\ ret'.op = "start"
           /\ ret'.kind = "noop"
           /\ UNCHANGED <<rec_vars, dev_vars>>)
      ]_vars

\* C7 witness: start_recording returned as a no-op on a running session
\* that had already captured samples.
C7_Witness ==
    /\ ret.op = "start"
    /\ ret.kind = "noop"
    /\ pc_ctl = "idle"
    /\ stream = "running"
    /\ buffer_position > 0

\* C8: stop_recording with no session active and no stream pending returns
\* an empty array at once and changes nothing; and that is the state every
\* stop_recording and cleanup leaves, so a second stop_recording is empty.
C8_StopIsIdempotent ==
    [][/\ (StopCall /\ ~is_recording /\ ~stream_active)
          => (/\ pc_ctl' = "idle"
              /\ ret'.op = "stop"
              /\ ret'.kind = "empty"
              /\ UNCHANGED <<rec_vars, dev_vars>>)
       /\ (pc_ctl' = "idle" /\ ret'.op \in {"stop", "cleanup"})
          => (~is_recording' /\ ~stream_active' /\ stream' = "None")
      ]_vars

\* C8 witness: a stop_recording that returned samples was followed by one
\* that returned the empty array.
C8_Witness ==
    /\ pc_ctl = "idle"
    /\ ret.op = "stop"
    /\ ret.kind = "empty"
    /\ prev_ret.op = "stop"
    /\ prev_ret.kind = "data"

\* C9: stop_recording that ends a session in which nothing was written
\* raises AudioProcessingError; an array it returns from a session is never
\* empty; the empty array is returned only by a stop_recording called with
\* no session active and no stream pending.
C9_NothingCapturedRaises ==
    [][/\ (StopEndedSession' /\ accepted' = <<>>) => ret'.kind = "error"
       /\ (ret'.op = "stop" /\ ret'.kind = "data") => ret'.data # <<>>
       /\ (/\ ret'.kind = "empty"
           /\ (ret.kind # "empty" \/ prev_ret' # prev_ret))
          => (pc_ctl = "idle" /\ ~is_recording /\ ~stream_active)
      ]_vars

\* C9 witness: a session with no callback at all was stopped and
\* stop_recording raised.
C9_Witness ==
    /\ StopEndedSession
    /\ ret.kind = "error"
    /\ delivered = <<>>
    /\ ~overflowed

\* C10: once start_recording has raised, the recorder is unwound (both flags
\* clear, no handle held); a start_recording called next is never refused as
\* already recording, and when the device lets it succeed a normal session
\* runs: stream running, flags set, position counting the accepted samples.
C10_StartFailureUnwinds ==
    /\ (pc_ctl = "idle" /\ ret.op = "start" /\ ret.kind = "error")
       => (/\ ~is_recording_property
           /\ ~is_recording
           /\ stream = "None")
    /\ (/\ pc_ctl = "idle"
        /\ ret.op = "start"
        /\ prev_ret.op = "start"
        /\ prev_ret.kind = "error")
       => (/\ ret.kind \in {"ok", "error"}
           /\ ret.kind = "ok"
              => (/\ stream = "running"
                  /\ stream_active
                  /\ is_recording \/ overflowed
                  /\ buffer_position = Len(accepted)
                  /\ accepted = SubSeq(delivered, 1, Len(accepted))))

\* C10 witness: the start_recording after a failed one opened a session
\* that has captured samples.
C10_Witness ==
    /\ pc_ctl = "idle"
    /\ ret.op = "start"
    /\ ret.kind = "ok"
    /\ prev_ret.op = "start"
    /\ prev_ret.kind = "error"
    /\ is_recording
    /\ Len(accepted) > 0

C13_AccessUnderLock ==
    [][/\ (CbStep /\ pc_cb \in {"cb_space", "cb_copy", "cb_advance"})
          => buffer_lock = "cb"
       /\ (pc_ctl = "stop_read" /\ pc_ctl' # pc_ctl) => buffer_lock = "ctl"
       /\ (pc_ctl = "start_reset" /\ pc_ctl' # pc_ctl) => buffer_lock = "ctl"
      ]_vars

\* C14: in every reachable state 0 <= _buffer_position <= max_samples, and
\* the buffer keeps its max_samples cells.
C14_PositionWithinCapacity ==
    /\ buffer_position \in 0..max_samples
    /\ DOMAIN audio_buffer = 1..max_samples

\* C14 witness: the buffer is full and a later callback of the same session
\* is being turned away.
C14_Witness ==
    /\ buffer_position = max_samples
    /\ overflowed
    /\ pc_cb = "cb_check"
    /\ ~is_recording

\* C15: at most one device stream is open (constructed and not closed) at
\* any time. It fails when stream.stop() raises: _cleanup_stream then skips
\* close() and drops the handle, and the next start_recording opens a
\* second stream.
C15_AtMostOneStreamOpen == unclosed <= 1

\* C17: a callback that finds the session not Active (after an overflow, or
\* once stop_recording has cleared the flag) returns without touching the
\* buffer or the position; once stop_recording has closed the stream no
\* callback is in flight and nothing is written any more, so the array it
\* returns is what was written before the stream was closed.
C17_NoWriteAfterStop ==
    [][/\ (CbStep /\ pc_cb = "cb_check" /\ ~is_recording)
          => (/\ pc_cb' = "idle"
              /\ audio_buffer' = audio_buffer
              /\ buffer_position' = buffer_position)
       /\ (pc_ctl \in {"stop_lock", "stop_read"}) => pc_cb = "idle"
       /\ (pc_ctl' = "idle" /\ ret'.op = "stop")
          => (/\ pc_cb' = "idle"
              /\ ret'.kind = "data" => ret'.data = accepted'
              /\ (pc_ctl = "idle" /\ ret.op = "stop")
                 => (/\ audio_buffer' = audio_buffer
                     /\ buffer_position' = buffer_position))
      ]_vars

\* C17 witness: a callback was delivered while stop_recording was in
\* progress, and stop_recording returned the samples written by the
\* callbacks before it only.
C17_Witness ==
    /\ pc_ctl = "idle"
    /\ ret.op = "stop"
    /\ ret.kind = "data"
    /\ ~stop_clean
    /\ ~overflowed
    /\ Len(delivered) > Len(ret.data)

\* C18: every start_recording that begins a session leaves the position at
\* 0 before it sets the flags, so the array stop_recording returns is a
\* prefix of the samples delivered since that start_recording and holds no
\* sample of an earlier session.
C18_SessionsIsolated ==
    /\ pc_ctl \in {"start_flags", "start_open"} => buffer_position = 0
    /\ (pc_ctl = "idle" /\ ret.op = "stop" /\ ret.kind = "data")
       => /\ Len(ret.data) <= Len(delivered)
          /\ \A i \in 1..Len(ret.data) : ret.data[i] = delivered[i]

\* C18 witness: stop_recording returned a session shorter than the buffer
\* while the last cell still holds a sample of an earlier session.
C18_Witness ==
    /\ pc_ctl = "idle"
    /\ ret.op = "stop"
    /\ ret.kind = "data"
    /\ Len(ret.data) < max_samples
    /\ audio_buffer[max_samples] # Zero

\* C19: whenever no control operation is in progress, a held handle implies
\* _stream_active and _is_recording implies _stream_active; so when the
\* is_recording property is false no handle is held.
C19_NoLeakedHandle ==
    pc_ctl = "idle"
    => /\ stream # "None" => stream_active
       /\ is_recording => stream_active
       /\ ~is_recording_property => stream = "None"

\* C19 witness: cleanup() on an overflowed session has returned and the
\* handle is gone.
C19_Witness ==
    /\ pc_ctl = "idle"
    /\ ret.op = "cleanup"
    /\ overflowed
    /\ ~is_recording_property
    /\ stream = "None"

\* C16: when stream.stop() or stream.close() raises during stop_recording,
\* the failure does not reach the caller: stop_recording returns the samples
\* captured (it raises only if none was captured), and afterwards no handle
\* is held and the is_recording property is false.
C16_TeardownFailureNotFatal ==
    (pc_ctl = "idle" /\ ret.op = "stop" /\ teardown_failed)
    => /\ accepted # <<>> => (ret.kind = "data" /\ ret.data = accepted)
       /\ accepted = <<>> => ret.kind = "error"
       /\ stream = "None"
       /\ ~is_recording_property

\* C16 witness: stop_recording returned the captured samples although the
\* teardown of its stream failed and left the device stream unclosed.
C16_Witness ==
    /\ pc_ctl = "idle"
    /\ ret.op = "stop"
    /\ teardown_failed
    /\ ret.kind = "data"
    /\ ret.data = accepted
    /\ unclosed > 0
    /\ stream = "None"

\* C12: per prefix the delivered callbacks alternate start, stop, start, ...
\* beginning with start: at every moment the start callbacks delivered for
\* a prefix exceed its stop callbacks by 0 or by 1. It fails when the pressed
\* keys are cleared while a key is held (see C20): the repeated key-down
\* then delivers a second start.
C12_CallbacksAlternate ==
    \A p \in Prefixes : balance[p] \in {0, 1}

\* C20: once stop_monitoring has returned (and until start_monitoring is
\* called again) no callback is delivered and the pressed keys stay empty;
\* and no prefix gets a second start callback before its stop callback,
\* whether or not the pressed keys were cleared while its key was held.
C20_QuietAfterStopMonitoring ==
    /\ mon_stopped => (pressed_keys = {} /\ ~late_callback)
    /\ \A p \in Prefixes : balance[p] <= 1

====
